---- MODULE Spec2Model ----
(***************************************************************************)
(* Quotes API (src/main.py): a FastAPI service over one MongoDB            *)
(* collection, "quote".  The state is the collection, the module-level     *)
(* storage handle `db`, and the position of every random-retrieval         *)
(* request in flight.  A step is what a handler does up to the return of   *)
(* its next storage call, so the handlers that make one storage call are   *)
(* single steps.  Every storage call may raise.                            *)
(***************************************************************************)
EXTENDS Integers, Sequences, FiniteSets, TLC

VARIABLES
    db,        \* TRUE iff the storage handle `db` is not None (fixed at import)
    coll,      \* db["quote"]: the stored documents, in natural (insertion) order
    nextId,    \* the ObjectId the storage layer assigns to the next insert
    pc,        \* per worker: the storage call its random_quote request makes next
    rtag,      \* per worker: the request's `tag` argument
    existing,  \* per worker: seed_quotes_if_empty's local `existing`
    idx,       \* per worker: position of `for s in seeds` (1-based)
    att,       \* per worker: outcome of each create_document of the seed loop so far
    obs,       \* per worker: what the request saw of the collection when it started
    nreq,      \* requests received so far
    nfail,     \* storage calls that have raised so far
    resp       \* the response the last step sent, with the request it answers

vars == <<db, coll, nextId, pc, rtag, existing, idx, att, obs, nreq, nfail, resp>>

----------------------------------------------------------------------------
(* Bounds of the model *)

NumSeeds == 2        \* how many entries of the seed catalog the model keeps
MaxRequests == 2     \* requests received in one run
MaxFailures == 1     \* storage calls that raise in one run
MaxNames == 11       \* longest list_collection_names() result tried
MaxMsgLen == 51      \* longest exception text tried

(* Program constants *)

MaxCollections == 10     \* collections[:10]
MaxErrLen == 50          \* str(e)[:50]
LimitMin == 1            \* Query(ge=1)
LimitMax == 200          \* Query(le=200)

\* the random-retrieval requests in flight at once: the two of the seeding race
Workers == {1, 2}

\* Python's None, kept apart from every string a request can carry
None == "<None>"

Min(a, b) == IF a <= b THEN a ELSE b

\* s[:n]
Take(s, n) == SubSeq(s, 1, Min(n, Len(s)))

\* x in s, for a Python list s
Contains(s, x) == \E k \in 1..Len(s) : s[k] = x

----------------------------------------------------------------------------
(* Request inputs *)

\* the `tag` query parameter: absent, empty, a tag of the catalog, a tag of no record
TagInputs == {None, "", "inspiration", "nonexistent-tag-zzz"}

\* the `limit` query parameter, in and out of [1, 200]
LimitInputs == {LimitMin - 1, LimitMin, 2, LimitMax, LimitMax + 1}

\* request bodies of POST /api/quotes: a function from the fields sent to their values
PayloadInputs ==
    { [text |-> "t1"],
      [text |-> "", author |-> "A", tags |-> <<"b", "inspiration">>, template |-> "tpl"] }

\* exception texts and collection-name lists, as sequences of characters / names
Chars(n) == [k \in 1..n |-> k]
MsgInputs == {Chars(n) : n \in {0, 1, MaxErrLen - 1, MaxErrLen, MaxMsgLen}}
NameInputs == {Chars(n) : n \in {0, 1, MaxCollections - 1, MaxCollections, MaxNames}}

----------------------------------------------------------------------------
(* Models and the storage layer *)

\* QuoteCreate with the author's default left out (None instead of "Unknown")
QuoteCreate_no_author_default(payload) ==
    [ text     |-> payload.text,
      author   |-> IF "author" \in DOMAIN payload THEN payload.author ELSE None,
      tags     |-> IF "tags" \in DOMAIN payload THEN payload.tags ELSE <<>>,
      template |-> IF "template" \in DOMAIN payload THEN payload.template ELSE None ]

\* class QuoteCreate: the request body with the defaults of the fields left out
QuoteCreate(payload) ==
    [ text     |-> payload.text,
      author   |-> IF "author" \in DOMAIN payload THEN payload.author ELSE "Unknown",
      tags     |-> IF "tags" \in DOMAIN payload THEN payload.tags ELSE <<>>,
      template |-> IF "template" \in DOMAIN payload THEN payload.template ELSE None ]

\* schemas.Quote(**fields): the quote entity of the data model, same fields and defaults
QuoteSchema(fields) ==
    [ text     |-> fields.text,
      author   |-> IF "author" \in DOMAIN fields THEN fields.author ELSE "Unknown",
      tags     |-> IF "tags" \in DOMAIN fields THEN fields.tags ELSE <<>>,
      template |-> IF "template" \in DOMAIN fields THEN fields.template ELSE None ]

\* the first entries of `seeds`, in catalog order
Catalog ==
    << [ text |-> "The only limit to our realization of tomorrow is our doubts of today.",
         author |-> "Franklin D. Roosevelt", tags |-> <<"inspiration", "future">> ],
       [ text |-> "Believe you can and you're halfway there.",
         author |-> "Theodore Roosevelt", tags |-> <<"confidence", "motivation">> ],
       [ text |-> "Do what you can, with what you have, where you are.",
         author |-> "Theodore Roosevelt", tags |-> <<"action">> ],
       [ text |-> "It always seems impossible until it's done.",
         author |-> "Nelson Mandela", tags |-> <<"perseverance">> ] >>

seeds == SubSeq(Catalog, 1, Min(NumSeeds, Len(Catalog)))

\* `if tag:`: None and the empty string are both falsy
Truthy(tag) == tag # None /\ tag # ""

\* a storage filter: {} or {"tags": {"$in": [...]}}
EmptyFilter == [all |-> TRUE, tags_in |-> <<>>]
TagsIn(tag) == [all |-> FALSE, tags_in |-> <<tag>>]

\* list_quotes that never builds the tag filter
filter_dict_ignored(tag) == EmptyFilter

\* list_quotes: filter_dict
filter_dict(tag) == IF Truthy(tag) THEN TagsIn(tag) ELSE EmptyFilter

\* seed_quotes_if_empty: count_filter
\* a seeding decision that counts the whole collection, whatever the tag
count_filter_whole(tag) == EmptyFilter

count_filter(tag) == IF Truthy(tag) THEN TagsIn(tag) ELSE EmptyFilter

\* random_quote that never adds the $match stage
pipeline_no_match(tag) == EmptyFilter

\* random_quote: the $match stage the pipeline starts with, if any
pipeline(tag) == IF Truthy(tag) THEN TagsIn(tag) ELSE EmptyFilter

\* the storage engine's match of a document against a filter
Matches(doc, f) ==
    f.all \/ \E k \in 1..Len(f.tags_in) : Contains(doc.tags, f.tags_in[k])

Matching(c, f) == SelectSeq(c, LAMBDA doc : Matches(doc, f))

\* db["quote"].count_documents(filter)
count_documents(f) == Len(Matching(coll, f))

\* get_documents("quote", filter, limit): find(filter).limit(limit)
get_documents(f, limit) == Take(Matching(coll, f), limit)

\* the document create_document stores for a model, under a fresh id
NewDoc(quote) ==
    [ _id |-> nextId, text |-> quote.text, author |-> quote.author,
      tags |-> quote.tags, template |-> quote.template ]

create_document(quote) ==
    /\ coll' = Append(coll, NewDoc(quote))
    /\ nextId' = nextId + 1

\* str(ObjectId)
IdStr(oid) == ToString(oid)

----------------------------------------------------------------------------
(* Documents as the driver hands them over: every field value with its Python type *)

ObjectId(n) == [t |-> "ObjectId", v |-> n]
Str(x) == [t |-> "str", v |-> x]
List(x) == [t |-> "list", v |-> x]
NoneValue == [t |-> "NoneType", v |-> 0]

\* a datetime: year, month, day, hour, minute, second, microsecond
Datetime(y, mo, d, h, mi, sec, us) == [t |-> "datetime", v |-> <<y, mo, d, h, mi, sec, us>>]

\* a stored quote document of this model as the driver returns it
Bson(doc) ==
    [k \in DOMAIN doc |->
        IF k = "_id" THEN ObjectId(doc[k])
        ELSE IF k = "tags" THEN List(doc[k])
        ELSE IF doc[k] = None THEN NoneValue
        ELSE Str(doc[k])]

\* the response encoding of a serialized document: plain JSON values
Json(d) == [k \in DOMAIN d |-> IF d[k].t = "NoneType" THEN None ELSE d[k].v]

DigitChars == <<"0", "1", "2", "3", "4", "5", "6", "7", "8", "9">>

Pow10(n) == IF n = 0 THEN 1 ELSE IF n = 1 THEN 10 ELSE IF n = 2 THEN 100
            ELSE IF n = 3 THEN 1000 ELSE IF n = 4 THEN 10000 ELSE 100000

\* n in decimal, zero-padded to width characters
Digits(n, width) == [i \in 1..width |-> DigitChars[((n \div Pow10(width - i)) % 10) + 1]]

\* str(datetime) in place of isoformat(): a space between the date and the time
isoformat_as_str(dt) ==
    Digits(dt[1], 4) \o <<"-">> \o Digits(dt[2], 2) \o <<"-">> \o Digits(dt[3], 2)
    \o <<" ">> \o Digits(dt[4], 2) \o <<":">> \o Digits(dt[5], 2) \o <<":">> \o Digits(dt[6], 2)
    \o (IF dt[7] = 0 THEN <<>> ELSE <<".">> \o Digits(dt[7], 6))

\* datetime.isoformat(): YYYY-MM-DDTHH:MM:SS, then .ffffff when the microseconds are
\* not zero; the text as its sequence of characters
isoformat(dt) ==
    Digits(dt[1], 4) \o <<"-">> \o Digits(dt[2], 2) \o <<"-">> \o Digits(dt[3], 2)
    \o <<"T">> \o Digits(dt[4], 2) \o <<":">> \o Digits(dt[5], 2) \o <<":">> \o Digits(dt[6], 2)
    \o (IF dt[7] = 0 THEN <<>> ELSE <<".">> \o Digits(dt[7], 6))

\* hasattr(value, "isoformat")
hasattr_isoformat(value) == value.t = "datetime"

\* Python's truth value of d.get("_id")
truthy_id(d) ==
    /\ "_id" \in DOMAIN d
    /\ d["_id"].t # "NoneType"
    /\ ~(d["_id"].t = "int" /\ d["_id"].v = 0)
    /\ ~(d["_id"].t = "str" /\ d["_id"].v = "")

\* serialize_doc: on a copy, _id, when truthy, is popped and rendered under "id";
\* then every value with an isoformat attribute is replaced by its isoformat()
serialize_doc(doc) ==
    LET keys == IF truthy_id(doc) THEN (DOMAIN doc \ {"_id"}) \cup {"id"} ELSE DOMAIN doc
        d == [k \in keys |->
                IF truthy_id(doc) /\ k = "id"
                THEN Str(IF doc["_id"].t = "str" THEN doc["_id"].v ELSE IdStr(doc["_id"].v))
                ELSE doc[k]]
    IN  [k \in keys |-> IF hasattr_isoformat(d[k]) THEN Str(isoformat(d[k].v)) ELSE d[k]]

\* d = dict(doc): every assignment of serialize_doc goes to the copy, so the caller's
\* document is, after the call, what it was
doc_after_serialize(doc) == doc

\* what a response carries for a stored document
Serialized(doc) == Json(serialize_doc(Bson(doc)))

\* handlers that skip the `db is None` check
db_check_skipped == FALSE

\* `if db is None`
db_is_None == ~db

----------------------------------------------------------------------------
(* Responses *)

NoReq == [none |-> TRUE]

Response(kind, status, body, req) ==
    [kind |-> kind, status |-> status, body |-> body, req |-> req]

\* raise HTTPException(status_code=500, detail="Database not configured")
NotConfigured(kind, req) ==
    Response(kind, 500, [detail |-> "Database not configured"], req)

\* raise HTTPException(status_code=404, ...)
NotFound(kind, req) ==
    Response(kind, 404, [detail |-> "No quotes available for the specified filter"], req)

\* an exception no handler catches: the framework answers 500
Unhandled(kind, req) ==
    Response(kind, 500, [detail |-> "Internal Server Error"], req)

\* the boundary layer's rejection of a query parameter out of range
Rejected(kind, req) ==
    Response(kind, 422, [detail |-> "Validation Error"], req)

\* the step sends nothing
NoResponse == Response("none", 0, [detail |-> ""], NoReq)

\* a request is received
Receive ==
    /\ nreq < MaxRequests
    /\ nreq' = nreq + 1

\* a storage call raises / returns
Raise ==
    /\ nfail < MaxFailures
    /\ nfail' = nfail + 1

Return == UNCHANGED nfail

NoObs == [len |-> 0, after_ran |-> FALSE, after_ok |-> FALSE]

IdleLocals(w) ==
    /\ pc' = [pc EXCEPT ![w] = "idle"]
    /\ rtag' = [rtag EXCEPT ![w] = None]
    /\ existing' = [existing EXCEPT ![w] = 0]
    /\ idx' = [idx EXCEPT ![w] = 0]
    /\ att' = [att EXCEPT ![w] = <<>>]
    /\ obs' = [obs EXCEPT ![w] = NoObs]

\* what the database may hold when the process starts
InitColls ==
    { <<>>,
      << [_id |-> 1, text |-> "t0", author |-> "Unknown", tags |-> <<"b">>, template |-> None] >> }

Init ==
    /\ db \in BOOLEAN
    /\ coll \in InitColls
    /\ nextId = Len(coll) + 1
    /\ pc = [w \in Workers |-> "idle"]
    /\ rtag = [w \in Workers |-> None]
    /\ existing = [w \in Workers |-> 0]
    /\ idx = [w \in Workers |-> 0]
    /\ att = [w \in Workers |-> <<>>]
    /\ obs = [w \in Workers |-> NoObs]
    /\ nreq = 0
    /\ nfail = 0
    /\ resp = NoResponse

----------------------------------------------------------------------------
(* POST /api/quotes *)

create_quote(payload) ==
    LET req == [payload |-> payload]
    IN  /\ Receive
        /\ UNCHANGED <<db, pc, rtag, existing, idx, att, obs>>
        /\ IF db_is_None
           THEN /\ resp' = NotConfigured("create", req)
                /\ UNCHANGED <<coll, nextId, nfail>>
           ELSE \/ /\ Return
                   /\ create_document(QuoteSchema(QuoteCreate(payload)))
                   /\ resp' = Response("create", 200, [id |-> IdStr(nextId)], req)
                \/ /\ Raise
                   /\ UNCHANGED <<coll, nextId>>
                   /\ resp' = Unhandled("create", req)

(* GET /api/quotes *)

list_quotes(tag, limit) ==
    LET req  == [tag |-> tag, limit |-> limit]
        docs == get_documents(filter_dict(tag), limit)
    IN  /\ Receive
        /\ UNCHANGED <<db, coll, nextId, pc, rtag, existing, idx, att, obs>>
        /\ IF limit < LimitMin \/ limit > LimitMax
           THEN resp' = Rejected("list", req) /\ Return
           ELSE IF db_is_None
           THEN resp' = NotConfigured("list", req) /\ Return
           ELSE \/ /\ Return
                   /\ resp' = Response("list", 200,
                        [items |-> [k \in 1..Len(docs) |-> Serialized(docs[k])]], req)
                \/ /\ Raise
                   /\ resp' = Unhandled("list", req)

(* GET /api/quotes/random *)

\* what a random-retrieval response records of its request: the tag, the count, the
\* outcome of every seed insert, the storage call whose exception ended the request
\* ("none", "count", "insert", "sample"), and what the request saw at its count
RandomReq(tag, n, attempts, raised, seen) ==
    [ tag |-> tag, existing |-> n, att |-> attempts, raised |-> raised,
      len |-> seen.len, after_ran |-> seen.after_ran, after_ok |-> seen.after_ok ]

\* the response just sent answers a random retrieval with this tag that found nothing
\* matching and ran the whole seeding loop
RanSeeding(tag) ==
    /\ resp.kind = "random"
    /\ resp.req.tag = tag
    /\ resp.status # 500
    /\ resp.req.existing = 0
    /\ Len(resp.req.att) = Len(seeds)

\* ... and one of its inserts that succeeded stored a record matching the filter
SeededMatch(tag) ==
    /\ RanSeeding(tag)
    /\ \E k \in 1..Len(seeds) :
          resp.req.att[k] /\ Matches(QuoteSchema(seeds[k]), count_filter(tag))

\* what the request sees at its count
Seen(tag) ==
    [ len |-> Len(coll), after_ran |-> RanSeeding(tag), after_ok |-> SeededMatch(tag) ]

\* seed_quotes_if_empty without its early return
need_seed_always(n) == TRUE

\* `if existing > 0: return`
need_seed(n) == ~(n > 0)

\* the handler up to the return of its first storage call: the `db is None` check, then
\* seed_quotes_if_empty's count, outside any try; the runtime hands the request to its
\* first free worker
random_quote(w, tag) ==
    /\ pc[w] = "idle"
    /\ \A v \in Workers : v < w => pc[v] # "idle"
    /\ Receive
    /\ UNCHANGED <<db, coll, nextId>>
    /\ IF db_is_None
       THEN /\ resp' = NotConfigured("random", RandomReq(tag, 0, <<>>, "none", Seen(tag)))
            /\ UNCHANGED <<pc, rtag, existing, idx, att, obs, nfail>>
       ELSE \/ LET n == count_documents(count_filter(tag))
               IN  /\ Return
                   /\ rtag' = [rtag EXCEPT ![w] = tag]
                   /\ obs' = [obs EXCEPT ![w] = Seen(tag)]
                   /\ existing' = [existing EXCEPT ![w] = n]
                   /\ IF need_seed(n)
                      THEN pc' = [pc EXCEPT ![w] = "loop"] /\ idx' = [idx EXCEPT ![w] = 1]
                      ELSE pc' = [pc EXCEPT ![w] = "sample"] /\ UNCHANGED idx
                   /\ UNCHANGED att
                   /\ resp' = NoResponse
            \/ /\ Raise
               /\ resp' = Unhandled("random", RandomReq(tag, 0, <<>>, "count", Seen(tag)))
               /\ UNCHANGED <<pc, rtag, existing, idx, att, obs>>

\* a seeding loop with no try: the insert's exception ends the request
on_insert_error_raise(w) ==
    /\ resp' = Unhandled("random", RandomReq(rtag[w], existing[w], att[w], "insert", obs[w]))
    /\ IdleLocals(w)
    /\ UNCHANGED <<coll, nextId>>

\* a seeding loop that undoes the last insert when one fails
on_insert_error_rollback(w) ==
    /\ att' = [att EXCEPT ![w] = Append(@, FALSE)]
    /\ idx' = [idx EXCEPT ![w] = @ + 1]
    /\ pc' = [pc EXCEPT ![w] = IF idx[w] = Len(seeds) THEN "sample" ELSE "loop"]
    /\ coll' = SubSeq(coll, 1, Len(coll) - 1)
    /\ UNCHANGED <<nextId, rtag, existing, obs>>
    /\ resp' = NoResponse

\* a seeding loop whose except clause leaves the loop
on_insert_error_break(w) ==
    /\ att' = [att EXCEPT ![w] = Append(@, FALSE)]
    /\ pc' = [pc EXCEPT ![w] = "sample"]
    /\ UNCHANGED <<coll, nextId, rtag, existing, obs, idx>>
    /\ resp' = NoResponse

\* `except Exception: pass`: the failed insert leaves no trace and the loop goes on
on_insert_error(w) ==
    /\ att' = [att EXCEPT ![w] = Append(@, FALSE)]
    /\ idx' = [idx EXCEPT ![w] = @ + 1]
    /\ pc' = [pc EXCEPT ![w] = IF idx[w] = Len(seeds) THEN "sample" ELSE "loop"]
    /\ UNCHANGED <<coll, nextId, rtag, existing, obs>>
    /\ resp' = NoResponse

\* a seeding loop that skips a seed whose text is already stored
seed_insert_unique(w) ==
    /\ pc[w] = "loop"
    /\ idx[w] <= Len(seeds)
    /\ UNCHANGED <<db, nreq>>
    /\ Return
    /\ IF \E k \in 1..Len(coll) : coll[k].text = seeds[idx[w]].text
       THEN UNCHANGED <<coll, nextId>>
       ELSE create_document(QuoteSchema(seeds[idx[w]]))
    /\ att' = [att EXCEPT ![w] = Append(@, TRUE)]
    /\ idx' = [idx EXCEPT ![w] = @ + 1]
    /\ pc' = [pc EXCEPT ![w] = IF idx[w] = Len(seeds) THEN "sample" ELSE "loop"]
    /\ UNCHANGED <<rtag, existing, obs>>
    /\ resp' = NoResponse

\* one turn of `for s in seeds`: create_document in a try
seed_insert(w) ==
    /\ pc[w] = "loop"
    /\ idx[w] <= Len(seeds)
    /\ UNCHANGED <<db, nreq>>
    /\ \/ /\ Return
          /\ create_document(QuoteSchema(seeds[idx[w]]))
          /\ att' = [att EXCEPT ![w] = Append(@, TRUE)]
          /\ idx' = [idx EXCEPT ![w] = @ + 1]
          /\ pc' = [pc EXCEPT ![w] = IF idx[w] = Len(seeds) THEN "sample" ELSE "loop"]
          /\ UNCHANGED <<rtag, existing, obs>>
          /\ resp' = NoResponse
       \/ Raise /\ on_insert_error(w)

\* `if not docs` taken for a single document too
no_docs_short(docs) == Len(docs) <= 1

\* `if not docs`
no_docs(docs) == docs = <<>>

\* the aggregate of [$match,] $sample size 1, then 404 or the serialized document
sample(w) ==
    /\ pc[w] = "sample"
    /\ UNCHANGED <<db, coll, nextId, nreq>>
    /\ IdleLocals(w)
    /\ LET docs == Matching(coll, pipeline(rtag[w]))
           req(raised) == RandomReq(rtag[w], existing[w], att[w], raised, obs[w])
       IN  \/ /\ Raise
              /\ resp' = Unhandled("random", req("sample"))
           \/ /\ Return
              /\ IF no_docs(docs)
                 THEN resp' = NotFound("random", req("none"))
                 ELSE \E k \in 1..Len(docs) :
                        resp' = Response("random", 200, Serialized(docs[k]), req("none"))

(* GET /test *)

\* str(e), not truncated
error_text_whole(msg) == msg

\* str(e)[:50]
error_text(msg) == Take(msg, MaxErrLen)

\* collections[:10]
first_collections(names) == Take(names, MaxCollections)

\* outcome: "ok", or which probe raises: "name" (the getattr), "list" (the enumeration)
test_database(outcome, names, msg, urlSet, nameSet) ==
    LET probed == ~db_is_None /\ outcome # "name"
        database ==
            IF db_is_None THEN [text |-> "Available but not initialized", err |-> <<>>]
            ELSE IF outcome = "name" THEN [text |-> "Error: ", err |-> error_text(msg)]
            ELSE IF outcome = "list"
                 THEN [text |-> "Connected but Error: ", err |-> error_text(msg)]
            ELSE [text |-> "Connected & Working", err |-> <<>>]
        body ==
            [ backend |-> "Running",
              database |-> database,
              database_url |-> IF urlSet THEN "Set" ELSE "Not Set",
              database_name |-> IF nameSet THEN "Set" ELSE "Not Set",
              connection_status |-> IF probed THEN "Connected" ELSE "Not Connected",
              collections |-> IF ~db_is_None /\ outcome = "ok"
                              THEN first_collections(names) ELSE <<>> ]
    IN  /\ Receive
        /\ IF ~db_is_None /\ outcome # "ok" THEN Raise ELSE Return
        /\ resp' = Response("health", 200, body,
                        [outcome |-> outcome, names |-> names, msg |-> msg])
        /\ UNCHANGED <<db, coll, nextId, pc, rtag, existing, idx, att, obs>>

(* serialize_doc on its own *)

DatetimeInputs ==
    { Datetime(2024, 1, 2, 3, 4, 5, 0), Datetime(1999, 12, 31, 23, 59, 59, 123000) }

\* the timestamp fields a stored document may carry
TimestampInputs ==
    { <<>> }
    \cup { [created_at |-> c] : c \in DatetimeInputs }
    \cup { [created_at |-> c, updated_at |-> u] : c \in DatetimeInputs, u \in DatetimeInputs }

\* quote documents with a storage id, and the same documents read without it
DocInputs ==
    LET quote(template, ts) ==
            [ text |-> Str("t1"), author |-> Str("Unknown"),
              tags |-> List(<<"b", "inspiration">>), template |-> template ] @@ ts
        quotes == { quote(template, ts) :
                      template \in {NoneValue, Str("tpl")}, ts \in TimestampInputs }
    IN  quotes \cup { [_id |-> ObjectId(n)] @@ q : n \in {1, 12}, q \in quotes }

\* one call of serialize_doc: the response records the argument, the result, and the
\* argument as the caller holds it after the call
serialize(doc) ==
    /\ Receive
    /\ Return
    /\ resp' = Response("serialize", 200, serialize_doc(doc),
                    [doc |-> doc, after |-> doc_after_serialize(doc)])
    /\ UNCHANGED <<db, coll, nextId, pc, rtag, existing, idx, att, obs>>

NextSerialize == \E doc \in DocInputs : serialize(doc)

SpecSerialize == Init /\ [][NextSerialize]_vars

----------------------------------------------------------------------------
(* The service: every handler *)

Next ==
    \/ \E payload \in PayloadInputs : create_quote(payload)
    \/ \E tag \in {None, "b"}, limit \in {LimitMin, LimitMax} : list_quotes(tag, limit)
    \/ \E w \in Workers, tag \in TagInputs : random_quote(w, tag)
    \/ \E w \in Workers : seed_insert(w)
    \/ \E w \in Workers : sample(w)
    \/ \E outcome \in {"ok", "list"} :
          test_database(outcome, Chars(MaxNames), Chars(MaxMsgLen), TRUE, FALSE)

Spec == Init /\ [][Next]_vars

(* Creation and listing over every input, with seeding by one request at a time *)

NextList ==
    \/ \E payload \in PayloadInputs : create_quote(payload)
    \/ \E tag \in TagInputs \cup {"b"}, limit \in LimitInputs : list_quotes(tag, limit)
    \/ \E tag \in {None, "inspiration"} : random_quote(1, tag)
    \/ seed_insert(1)
    \/ sample(1)

SpecList == Init /\ [][NextList]_vars

(* The health check over every input *)

NextHealth ==
    \E outcome \in {"ok", "name", "list"}, names \in NameInputs, msg \in MsgInputs,
       urlSet \in BOOLEAN, nameSet \in BOOLEAN :
       test_database(outcome, names, msg, urlSet, nameSet)

SpecHealth == Init /\ [][NextHealth]_vars

(* Random retrieval, one request at a time *)

NextSeed ==
    \/ \E tag \in TagInputs : random_quote(1, tag)
    \/ seed_insert(1)
    \/ sample(1)

SpecSeed == Init /\ [][NextSeed]_vars

(* Random retrieval, one request at a time, for tags that no stored record and no
   catalog entry carries *)

AbsentTags == {"nonexistent-tag-zzz", "no-such-tag"}

NextAbsent ==
    \/ \E tag \in AbsentTags : random_quote(1, tag)
    \/ seed_insert(1)
    \/ sample(1)

SpecAbsent == Init /\ [][NextAbsent]_vars

----------------------------------------------------------------------------
(* Properties *)

HasTag(rec, x) == Contains(rec.tags, x)

\* how many of a request's seed inserts stored a record
Inserted(a) == Cardinality({k \in 1..Len(a) : a[k]})

IsPrefix(p, q) == Len(p) <= Len(q) /\ \A k \in 1..Len(p) : p[k] = q[k]

\* the response just sent answers a random retrieval (storage configured)
Random == resp.kind = "random" /\ db

\* ... whose storage calls all returned, the sampling included
Sampled == Random /\ resp.req.raised = "none"

\* C1 as stated: for every tag, a random retrieval that finds at least one record in
\* the collection inserts nothing
C1_NoReseedOnceNonEmpty ==
    /\ \A w \in Workers : pc[w] # "idle" /\ obs[w].len >= 1 => Inserted(att[w]) = 0
    /\ Random /\ resp.req.len >= 1 => Inserted(resp.req.att) = 0

\* C1: a random retrieval that counts at least one record matching its filter (any
\* record when the tag is absent or empty) attempts no insert at all, so it leaves the
\* number of records as it found it
C1_NoReseedOnceMatched ==
    /\ \A w \in Workers :
          pc[w] # "idle" /\ existing[w] >= 1 => pc[w] = "sample" /\ att[w] = <<>>
    /\ Random /\ resp.req.existing >= 1 => resp.req.att = <<>>

\* the second of two calls answers with a quote and the collection is as large as it
\* was when the call counted
C1_Witness ==
    /\ Random /\ resp.status = 200 /\ nreq = 2
    /\ resp.req.existing >= 1
    /\ Len(coll) = resp.req.len

\* the stored copies of a seed record
Copies(s) ==
    {k \in 1..Len(coll) :
        coll[k].text = s.text /\ coll[k].author = s.author /\ coll[k].tags = s.tags}

AllStored(a) == Len(a) = Len(seeds) /\ \A k \in 1..Len(a) : a[k]

\* both requests counted zero for the same filter and finished their seeding loops
\* with every insert stored
BothSeeded(w, v) ==
    /\ w # v
    /\ pc[w] = "sample" /\ pc[v] = "sample"
    /\ rtag[w] = rtag[v]
    /\ existing[w] = 0 /\ existing[v] = 0
    /\ AllStored(att[w]) /\ AllStored(att[v])

\* C2: when two random retrievals with the same filter both pass the count-is-zero
\* check and both run their seeding loops, the collection holds two copies of every
\* seed record, under distinct ids
C2_BothSeed ==
    \A w, v \in Workers :
        BothSeeded(w, v) =>
            \A k \in 1..Len(seeds) :
                \E i, j \in Copies(seeds[k]) : i # j /\ coll[i]._id # coll[j]._id

\* two untagged requests on an empty collection: both counted zero, so neither had
\* inserted when the other counted, and the collection is exactly the catalog twice
C2_Witness ==
    /\ BothSeeded(1, 2)
    /\ rtag[1] = None
    /\ Len(coll) = 2 * Len(seeds)
    /\ \A k \in 1..Len(seeds) : Cardinality(Copies(seeds[k])) = 2

\* C3 as stated: for every tag, a random retrieval that follows one which ran the
\* seeding for the same filter returns a quote, carrying the tag if one was given
C3_SubsequentAlwaysServed ==
    resp.kind = "random" /\ resp.req.after_ran =>
        /\ resp.status = 200
        /\ resp.req.tag # None => HasTag(resp.body, resp.req.tag)

\* C3: a random retrieval that counts zero runs the whole seeding loop; when that
\* loop stored a record matching the filter, the next random retrieval with the same
\* filter counts it and, its storage calls returning, answers with a quote that
\* carries the tag when the tag is non-empty
C3_SeedThenServe ==
    /\ Sampled /\ resp.req.existing = 0 => Len(resp.req.att) = Len(seeds)
    /\ Random /\ resp.req.after_ok /\ resp.req.raised # "count" => resp.req.existing >= 1
    /\ Sampled /\ resp.req.after_ok =>
          /\ resp.status = 200
          /\ Truthy(resp.req.tag) => HasTag(resp.body, resp.req.tag)

C3_Witness ==
    /\ Sampled /\ resp.req.after_ok
    /\ resp.req.tag = "inspiration"
    /\ resp.status = 200

\* C4 as stated: NotFound exactly when no record matches, else a stored record that
\* carries the requested tag whenever a tag was given
C4_NotFoundIffNoMatchGiven ==
    Sampled =>
        /\ resp.status \in {200, 404}
        /\ resp.status = 404 <=>
              ~ \E k \in 1..Len(coll) : resp.req.tag = None \/ HasTag(coll[k], resp.req.tag)
        /\ resp.status = 200 =>
              /\ \E k \in 1..Len(coll) : resp.body = Serialized(coll[k])
              /\ resp.req.tag # None => HasTag(resp.body, resp.req.tag)

\* C4: when its storage calls return, random retrieval answers NotFound exactly when
\* no stored record matches the filter, and otherwise a stored record that carries
\* the requested tag whenever the tag is non-empty (an empty tag filters nothing)
C4_NotFoundIffNoMatch ==
    Sampled =>
        /\ resp.status \in {200, 404}
        /\ resp.status = 404 <=>
              ~ \E k \in 1..Len(coll) :
                    ~Truthy(resp.req.tag) \/ HasTag(coll[k], resp.req.tag)
        /\ resp.status = 200 =>
              /\ \E k \in 1..Len(coll) : resp.body = Serialized(coll[k])
              /\ Truthy(resp.req.tag) => HasTag(resp.body, resp.req.tag)

\* NotFound after the request's own seeding has run and stored records
C4_Witness ==
    /\ Sampled /\ resp.status = 404
    /\ resp.req.existing = 0 /\ Inserted(resp.req.att) >= 1

\* C5 as stated: no storage failure inside seed_quotes_if_empty, the count included,
\* fails the request
C5_SeedingNeverFails ==
    Random =>
        /\ resp.req.raised \in {"none", "sample"}
        /\ resp.req.raised = "none" => resp.status \in {200, 404}

\* C5: no failure of a seed insert fails the request: the loop runs to its end and
\* the request goes on to sample, answering a quote or NotFound when the sampling
\* returns; a failure of the count is not caught and ends the request before any insert
C5_InsertFailuresSwallowed ==
    /\ Random =>
          /\ resp.req.raised \in {"none", "count", "sample"}
          /\ resp.req.raised = "none" => resp.status \in {200, 404}
          /\ resp.req.raised = "count" => resp.status = 500 /\ resp.req.att = <<>>
          /\ resp.req.raised # "count" /\ resp.req.existing = 0 =>
                Len(resp.req.att) = Len(seeds)
    /\ \A w \in Workers :
          pc[w] = "sample" /\ existing[w] = 0 => Len(att[w]) = Len(seeds)

C5_Witness ==
    /\ Sampled /\ resp.status \in {200, 404}
    /\ \E k \in 1..Len(resp.req.att) : ~resp.req.att[k]

\* C6: with the storage handle unset, creation, listing and random retrieval answer
\* 500 "Database not configured"; nothing is stored, no seeding starts and no storage
\* call is made
C6_Unconfigured ==
    ~db =>
        /\ coll \in InitColls /\ nextId = Len(coll) + 1
        /\ nfail = 0
        /\ \A w \in Workers : pc[w] = "idle" /\ att[w] = <<>>
        /\ \/ resp.kind \in {"create", "random"}
           \/ resp.kind = "list" /\ resp.req.limit \in 1..200
           => resp.status = 500 /\ resp.body = [detail |-> "Database not configured"]

C6_Witness ==
    /\ ~db /\ resp.kind = "random" /\ resp.status = 500
    /\ nreq = 2 /\ coll # <<>>

Listed == resp.kind = "list" /\ resp.status = 200

NumWithTag(x) == Cardinality({k \in 1..Len(coll) : HasTag(coll[k], x)})

\* the items are stored records, each listed once
FromCollection(items) ==
    /\ \A i \in 1..Len(items) : \E k \in 1..Len(coll) : items[i] = Serialized(coll[k])
    /\ \A i, j \in 1..Len(items) : i # j => items[i].id # items[j].id

\* C7 as stated: for every supplied tag string X, listing returns only records that
\* carry X, min(limit, number of records carrying X) of them
C7_EveryTagFilters ==
    Listed /\ resp.req.tag # None =>
        /\ \A i \in 1..Len(resp.body.items) : HasTag(resp.body.items[i], resp.req.tag)
        /\ Len(resp.body.items) = Min(resp.req.limit, NumWithTag(resp.req.tag))

C7_ListState ==
    /\ Listed => FromCollection(resp.body.items)
    /\ Listed /\ Truthy(resp.req.tag) =>
          /\ \A i \in 1..Len(resp.body.items) : HasTag(resp.body.items[i], resp.req.tag)
          /\ Len(resp.body.items) = Min(resp.req.limit, NumWithTag(resp.req.tag))
    /\ Listed /\ ~Truthy(resp.req.tag) =>
          Len(resp.body.items) = Min(resp.req.limit, Len(coll))

\* C7: for every non-empty tag X and every limit in 1..200, listing returns stored
\* records that all carry X, min(limit, number of records carrying X) of them; with
\* the tag absent or empty it returns min(limit, number of records) records; listing
\* never changes the collection
C7_ListFilters ==
    /\ []C7_ListState
    /\ [][resp'.kind = "list" => coll' = coll /\ nextId' = nextId]_vars

\* limit 1 with two records carrying the tag: one record comes back
C7_Witness ==
    /\ Listed /\ resp.req.tag = "b" /\ resp.req.limit = 1
    /\ NumWithTag("b") >= 2
    /\ Len(resp.body.items) = 1

Created == resp.kind = "create" /\ resp.status = 200

C8_Stored ==
    Created =>
        /\ Len(coll) >= 1
        /\ LET d == coll[Len(coll)]
               p == resp.req.payload
           IN  /\ resp.body = [id |-> IdStr(d._id)]
               /\ \A k \in 1..(Len(coll) - 1) : coll[k]._id # d._id
               /\ d.text = p.text
               /\ d.author = IF "author" \in DOMAIN p THEN p.author ELSE "Unknown"
               /\ d.tags = IF "tags" \in DOMAIN p THEN p.tags ELSE <<>>
               /\ d.template = IF "template" \in DOMAIN p THEN p.template ELSE None

\* C8: a successful creation appends exactly one record, returns its id, and stores
\* the submitted text with "Unknown", the empty sequence and null for the author,
\* tags and template left out; every record stored before is left as it was
C8_CreateStoresOne ==
    /\ []C8_Stored
    /\ [][resp'.kind = "create" /\ resp'.status = 200 =>
             Len(coll') = Len(coll) + 1 /\ SubSeq(coll', 1, Len(coll)) = coll]_vars

\* a creation with only the text
C8_Witness ==
    /\ Created /\ DOMAIN resp.req.payload = {"text"}
    /\ coll[Len(coll)].author = "Unknown"
    /\ coll[Len(coll)].tags = <<>>
    /\ coll[Len(coll)].template = None

\* C9: every step leaves every stored record, its id included, where and as it was;
\* the collection changes only by one record appended by a creation or by a seed insert
C9_GrowOnly ==
    [][ /\ Len(coll') >= Len(coll)
        /\ SubSeq(coll', 1, Len(coll)) = coll
        /\ coll' # coll =>
              /\ Len(coll') = Len(coll) + 1
              /\ \/ resp'.kind = "create" /\ resp'.status = 200
                 \/ \E w \in Workers : pc[w] = "loop" /\ att'[w] = Append(att[w], TRUE)
      ]_vars

\* a created record and a seeded record stored after it, the first record untouched
C9_Witness ==
    /\ Len(coll) >= 3
    /\ coll[1].text = "t1" /\ coll[1]._id = 1
    /\ \E k \in 2..Len(coll) : coll[k].text = seeds[1].text

\* C10: the health check always answers with a status object; a probing failure shows
\* only as at most 50 characters of the exception text in "database", and at most the
\* first 10 collection names are reported
C10_HealthNeverFails ==
    resp.kind = "health" =>
        /\ resp.status = 200
        /\ resp.body.backend = "Running"
        /\ Len(resp.body.collections) <= 10
        /\ IsPrefix(resp.body.collections, resp.req.names)
        /\ db /\ resp.req.outcome = "ok" =>
              Len(resp.body.collections) = Min(10, Len(resp.req.names))
        /\ Len(resp.body.database.err) <= 50
        /\ IsPrefix(resp.body.database.err, resp.req.msg)
        /\ db /\ resp.req.outcome # "ok" =>
              Len(resp.body.database.err) = Min(50, Len(resp.req.msg))
        /\ ~(db /\ resp.req.outcome # "ok") => resp.body.database.err = <<>>

\* the enumeration raises with a text longer than 50 characters
C10_Witness ==
    /\ resp.kind = "health" /\ db
    /\ resp.req.outcome = "list"
    /\ Len(resp.req.msg) > 50
    /\ Len(resp.body.database.err) = 50

RECURSIVE Number(_, _, _)
\* the number written in decimal at positions from..to of the text, -1 when some
\* character there is not a digit
Number(text, from, to) ==
    IF from > to THEN 0
    ELSE IF to > Len(text) \/ ~ \E i \in 1..10 : DigitChars[i] = text[to] THEN -1
    ELSE LET rest == Number(text, from, to - 1)
             last == (CHOOSE i \in 1..10 : DigitChars[i] = text[to]) - 1
         IN  IF rest < 0 THEN -1 ELSE 10 * rest + last

\* the text is the ISO-8601 extended form of the datetime: YYYY-MM-DDTHH:MM:SS with
\* an optional six-digit fraction of the second
IsIso8601Of(text, dt) ==
    /\ Len(text) \in {19, 26}
    /\ text[5] = "-" /\ text[8] = "-" /\ text[11] = "T" /\ text[14] = ":" /\ text[17] = ":"
    /\ Number(text, 1, 4) = dt[1] /\ Number(text, 6, 7) = dt[2] /\ Number(text, 9, 10) = dt[3]
    /\ Number(text, 12, 13) = dt[4] /\ Number(text, 15, 16) = dt[5]
    /\ Number(text, 18, 19) = dt[6]
    /\ IF Len(text) = 19 THEN dt[7] = 0
       ELSE text[20] = "." /\ Number(text, 21, 26) = dt[7] /\ dt[7] # 0

\* the response just sent is serialize_doc's result for a stored record: a document
\* that carries its storage id
SerializedStored ==
    /\ resp.kind = "serialize"
    /\ "_id" \in DOMAIN resp.req.doc
    /\ resp.req.doc["_id"].t = "ObjectId"

\* C11: for a stored record, serialize_doc's result has no _id and has the id in string
\* form under "id"; every datetime field is replaced by its ISO-8601 text; every other
\* field has the key and the value it had; and the argument is left as it was
C11_SerializeDoc ==
    SerializedStored =>
        LET doc == resp.req.doc
            out == resp.body
        IN  /\ DOMAIN out = (DOMAIN doc \ {"_id"}) \cup {"id"}
            /\ out["id"].t = "str" /\ out["id"].v = ToString(doc["_id"].v)
            /\ \A k \in DOMAIN doc \ {"_id"} :
                  IF doc[k].t = "datetime"
                  THEN out[k].t = "str" /\ IsIso8601Of(out[k].v, doc[k].v)
                  ELSE out[k] = doc[k]
            /\ resp.req.after = doc

\* a stored record with two timestamps, one with a fraction of a second, and a null
\* template
C11_Witness ==
    /\ SerializedStored
    /\ resp.req.doc["_id"].v = 12
    /\ {"created_at", "updated_at"} \subseteq DOMAIN resp.req.doc
    /\ Len(resp.body["created_at"].v) = 26
    /\ Len(resp.body["updated_at"].v) = 19
    /\ resp.body["template"] = NoneValue
    /\ resp.body["id"].v = "12"

\* the catalog positions whose insert succeeded, in order
Succeeded(a) == SelectSeq([k \in 1..Len(a) |-> k], LAMBDA k : a[k])

\* the records stored since the count are the catalog records whose insert succeeded,
\* in catalog order, each under an id no earlier record has
AddedAre(before, a) ==
    LET added == SubSeq(coll, before + 1, Len(coll))
        ok    == Succeeded(a)
    IN  /\ Len(added) = Len(ok)
        /\ \A i \in 1..Len(ok) :
              LET q == QuoteSchema(seeds[ok[i]])
              IN  /\ added[i].text = q.text /\ added[i].author = q.author
                  /\ added[i].tags = q.tags /\ added[i].template = q.template
                  /\ \A k \in 1..(before + i - 1) : coll[k]._id # added[i]._id

\* C12: a seeding run (its count was zero) attempts the catalog records one by one in
\* catalog order, a failed insert is followed by the attempt on the next record, the
\* run ends only after the last record, and at every point the records it has added
\* are exactly the catalog records whose insert succeeded
C12_SeedsEveryRecord ==
    /\ pc[1] = "loop" =>
          /\ existing[1] = 0
          /\ idx[1] \in 1..Len(seeds) /\ Len(att[1]) = idx[1] - 1
          /\ AddedAre(obs[1].len, att[1])
    /\ pc[1] = "sample" /\ existing[1] = 0 =>
          Len(att[1]) = Len(seeds) /\ AddedAre(obs[1].len, att[1])
    /\ Random /\ resp.req.raised # "count" /\ resp.req.existing = 0 =>
          Len(resp.req.att) = Len(seeds) /\ AddedAre(resp.req.len, resp.req.att)

\* a partial batch: the first insert failed, the loop went on, the last one succeeded
C12_Witness ==
    /\ pc[1] = "sample" /\ existing[1] = 0
    /\ Len(att[1]) = Len(seeds)
    /\ ~att[1][1] /\ att[1][Len(seeds)]
    /\ Len(coll) = obs[1].len + Len(seeds) - 1
    /\ coll[Len(coll)].text = seeds[Len(seeds)].text

\* the number of records the collection held before any request: those that are not
\* copies of a catalog record
Original == Len(SelectSeq(coll, LAMBDA doc : \A k \in 1..Len(seeds) : doc.text # seeds[k].text))

\* C13: the seeding decision counts the records carrying the request's tag, not the
\* collection. For a tag that no stored record and no catalog entry carries, a random
\* retrieval whose inserts all succeed finds the count zero, whatever the collection
\* holds, adds one copy of the whole catalog and answers NotFound; after n such
\* requests in sequence the collection holds n copies of every catalog record on top of
\* what it held
C13_AbsentTagGrows ==
    /\ \A w \in Workers : pc[w] # "idle" => existing[w] = 0
    /\ Sampled /\ AllStored(resp.req.att) =>
          /\ resp.status = 404
          /\ resp.req.existing = 0
          /\ Len(coll) = resp.req.len + Len(seeds)
          /\ AddedAre(resp.req.len, resp.req.att)
    /\ db /\ nfail = 0 /\ pc[1] = "idle" =>
          /\ \A k \in 1..Len(seeds) : Cardinality(Copies(seeds[k])) = nreq
          /\ Len(coll) = Original + nreq * Len(seeds)
          /\ SubSeq(coll, 1, Original) \in InitColls

\* the second request in a row on a collection that was not empty to begin with: it
\* counted zero although the collection held the first request's copy, and answered
\* NotFound after adding another
C13_Witness ==
    /\ Sampled /\ resp.status = 404
    /\ AllStored(resp.req.att)
    /\ nreq = 2 /\ nfail = 0
    /\ resp.req.len = 1 + Len(seeds)
    /\ Len(coll) = 1 + 2 * Len(seeds)

====
